---- MODULE Spec2Model ----
(***************************************************************************)
(* SoftPool CUDA kernels (pytorch/CUDA/softpool_cuda_kernel.cu).           *)
(*                                                                         *)
(* scalar_t is modelled as a small floating-point format held in integers: *)
(* a finite value v stands for v/ONE, the finite range is -upper..upper,   *)
(* values of magnitude below lower are subnormal, INF/-INF are the         *)
(* infinities an overflowing operation produces and NaN is the result of   *)
(* 0/0, INF-INF, INF/INF and 0*INF.  Every operation rounds toward zero.   *)
(***************************************************************************)
EXTENDS Integers, Sequences, FiniteSets, TLC

VARIABLES op, rank, g, bottom_input, diff_output, output_data, diff_input,
          host, nthreads, gridDim, err, thr, loc

vars == <<op, rank, g, bottom_input, diff_output, output_data, diff_input,
          host, nthreads, gridDim, err, thr, loc>>

(* ------------------------------ bounds --------------------------------- *)
MaxDim == 4
NumDim == 3
MaxExt == 2
BwdDim == 3
MaxKernel == 3
MaxStride == 2

(* ------------------------- scalar_t arithmetic ------------------------- *)
ONE == 1000
upper == 20000
lower == 4
zero == 0
INF == upper + 1
NaN == upper + 2

IsNaN(a) == a = NaN
IsFinite(a) == a >= -upper /\ a <= upper

Abs(a) == IF a < 0 THEN -a ELSE a
Sign(a) == IF a > 0 THEN 1 ELSE IF a < 0 THEN -1 ELSE 0

\* the result of an exact integer value v that may have left the finite range
Round(v) == IF v > upper THEN INF ELSE IF v < -upper THEN -INF ELSE v

\* a + b
FAdd(a, b) ==
  IF IsNaN(a) \/ IsNaN(b) THEN NaN
  ELSE IF Abs(a) = INF /\ Abs(b) = INF THEN (IF a = b THEN a ELSE NaN)
  ELSE IF Abs(a) = INF THEN a
  ELSE IF Abs(b) = INF THEN b
  ELSE Round(a + b)

\* a * b
FMul(a, b) ==
  IF IsNaN(a) \/ IsNaN(b) THEN NaN
  ELSE IF Abs(a) = INF \/ Abs(b) = INF
       THEN (IF a = 0 \/ b = 0 THEN NaN ELSE Sign(a) * Sign(b) * INF)
  ELSE Round(Sign(a) * Sign(b) * ((Abs(a) * Abs(b)) \div ONE))

\* a / b
FDiv(a, b) ==
  IF IsNaN(a) \/ IsNaN(b) THEN NaN
  ELSE IF Abs(a) = INF /\ Abs(b) = INF THEN NaN
  ELSE IF Abs(a) = INF THEN (IF b < 0 THEN -a ELSE a)
  ELSE IF Abs(b) = INF THEN 0
  ELSE IF b = 0 THEN (IF a = 0 THEN NaN ELSE Sign(a) * INF)
  ELSE Round(Sign(a) * Sign(b) * ((Abs(a) * ONE) \div Abs(b)))

\* exp(x): overflows to INF from 3.0 up, underflows to 0 from -7.0 down,
\* and is subnormal (below lower) at -6.0
exp(x) ==
  IF IsNaN(x) THEN NaN
  ELSE IF x >= 3 * ONE THEN INF
  ELSE IF x <= -7 * ONE THEN 0
  ELSE IF Abs(x) <= 40 THEN ONE + x
  ELSE CASE x \div ONE = -7 -> 0
         [] x \div ONE = -6 -> 2
         [] x \div ONE = -5 -> 6
         [] x \div ONE = -4 -> 18
         [] x \div ONE = -3 -> 49
         [] x \div ONE = -2 -> 135
         [] x \div ONE = -1 -> 367
         [] x \div ONE = 0 -> 1000
         [] x \div ONE = 1 -> 2718
         [] x \div ONE = 2 -> 7389

\* abs(n)
abs(n) == IF IsNaN(n) THEN NaN ELSE Abs(n)

\* min(a, b) and max(a, b) of the device math library: a NaN operand is
\* dropped and the other operand returned
min(a, b) == IF IsNaN(a) THEN b ELSE IF IsNaN(b) THEN a ELSE IF a < b THEN a ELSE b
max(a, b) == IF IsNaN(a) THEN b ELSE IF IsNaN(b) THEN a ELSE IF a > b THEN a ELSE b

\* (scalar_t(0) < val) - (val < scalar_t(0)): every comparison with NaN is false
sgn(val) ==
  IF IsNaN(val) THEN 0
  ELSE ((IF 0 < val THEN 1 ELSE 0) - (IF val < 0 THEN 1 ELSE 0)) * ONE

\* clamp(n, lower, upper)
clamp(n, lo, up) == FMul(max(lo, min(abs(n), up)), sgn(n))


(* ------------------ the numeric passes of one output cell -------------- *)
\* pass 1: mask = clamp(exp(x), zero, upper); mask_sum += mask, over the
\* values read in loop order
RECURSIVE MaskSumLoop(_, _)
MaskSumLoop(vals, mask_sum) ==
  IF vals = <<>> THEN mask_sum
  ELSE MaskSumLoop(Tail(vals), FAdd(mask_sum, clamp(exp(Head(vals)), zero, upper)))

\* (B.) mask_sum = clamp(mask_sum, lower, upper)
MaskSum(vals) == clamp(MaskSumLoop(vals, 0), lower, upper)

\* (C.), (D.): mask = clamp(exp(x)); mask /= mask_sum; mask = clamp(mask)
NormMask(x, mask_sum) ==
  clamp(FDiv(clamp(exp(x), zero, upper), mask_sum), zero, upper)

\* (E.) weighted_inp = clamp(x * mask)
WeightedInp(x, mask_sum) == clamp(FMul(x, NormMask(x, mask_sum)), zero, upper)

\* an accumulation that leaves out the clamp after the addition
RECURSIVE AccumulateLoopUnclamped(_, _, _)
AccumulateLoopUnclamped(vals, mask_sum, out) ==
  IF vals = <<>> THEN out
  ELSE AccumulateLoopUnclamped(Tail(vals), mask_sum,
         FAdd(out, WeightedInp(Head(vals), mask_sum)))

\* (F.) output_data[index] += weighted_inp; output_data[index] = clamp(...)
RECURSIVE AccumulateLoop(_, _, _)
AccumulateLoop(vals, mask_sum, out) ==
  IF vals = <<>> THEN out
  ELSE AccumulateLoop(Tail(vals), mask_sum,
         clamp(FAdd(out, WeightedInp(Head(vals), mask_sum)), zero, upper))

\* (E.) of the backward kernels: weighted_grad = clamp(diff_output_index * mask)
WeightedGrad(grad, x, mask_sum) ==
  clamp(FMul(grad, NormMask(x, mask_sum)), zero, upper)

(* ----------------------------- geometry -------------------------------- *)
\* number of cells of the input and input-gradient buffers
InputSize(gm) == gm.batches * gm.channels * gm.depth * gm.height * gm.width

\* number of cells of the output and output-gradient buffers:
\* batch x channel x floor(extent / stride) per axis
OutputAlloc(gm) ==
  gm.batches * gm.channels * (gm.depth \div gm.stride_d)
    * (gm.height \div gm.stride_h) * (gm.width \div gm.stride_w)

RECURSIVE Concat(_)
Concat(ss) == IF ss = <<>> THEN <<>> ELSE Head(ss) \o Concat(Tail(ss))

SeqToSet(s) == {s[k] : k \in 1..Len(s)}

(* --------------------------- SoftPool1dForward ------------------------- *)
\* the 1D kernels name their extent dim: it is held in gm.depth
Decode1dForward(index, gm) ==
  LET pooled_dim == gm.depth \div gm.stride_d
  IN  [pw |-> 0, ph |-> 0,
       pd |-> index % pooled_dim,
       c  |-> (index \div pooled_dim) % gm.channels,
       n  |-> (index \div pooled_dim) \div gm.channels]

\* a pooled extent of 0 is a divisor of the index decomposition
ZeroDivisor1dForward(gm) == gm.depth \div gm.stride_d = 0

\* first loop nest: the coordinates <<d, y, x>> visited, in loop order
Cells1dForwardPass1(co, gm) ==
  LET ds == SelectSeq([id \in 1..gm.kernel_d |-> co.pd * gm.stride_d + (id - 1) - gm.kernel_d \div 2],
                     LAMBDA d_offset : ~(d_offset >= gm.depth \/ d_offset < 0))
  IN  [j \in 1..Len(ds) |-> <<ds[j], 0, 0>>]

\* a second loop that moves an outside candidate to the border
Cells1dForwardPass2Clamped(co, gm) ==
  [id \in 1..gm.kernel_d |->
     <<max(0, min(co.pd * gm.stride_d + (id - 1) - gm.kernel_d \div 2, gm.depth - 1)),
       0, 0>>]

\* second loop nest: the coordinates <<d, y, x>> visited, in loop order
Cells1dForwardPass2(co, gm) ==
  LET ds == SelectSeq([id \in 1..gm.kernel_d |-> co.pd * gm.stride_d + (id - 1) - gm.kernel_d \div 2],
                     LAMBDA d_offset : ~(d_offset >= gm.depth \/ d_offset < 0))
  IN  [j \in 1..Len(ds) |-> <<ds[j], 0, 0>>]

\* const int offset = ...: the cell's place in its (batch, channel) slice
Addr1dForward(p, gm) == p[1]

\* (n * channels + c) * extents: where the slice starts
Offset1dForward(co, gm) == (co.n * gm.channels + co.c) * gm.depth

(* --------------------------- SoftPool2dForward ------------------------- *)
Decode2dForward(index, gm) ==
  LET pooled_height == gm.height \div gm.stride_h
      pooled_width == gm.width \div gm.stride_w
  IN  [pw |-> index % pooled_width,
       ph |-> (index \div pooled_width) % pooled_height,
       pd |-> 0,
       c  |-> ((index \div pooled_width) \div pooled_height) % gm.channels,
       n  |-> ((index \div pooled_width) \div pooled_height) \div gm.channels]

\* a pooled extent of 0 is a divisor of the index decomposition
ZeroDivisor2dForward(gm) ==
  gm.height \div gm.stride_h = 0 \/ gm.width \div gm.stride_w = 0

\* first loop nest: the coordinates <<d, y, x>> visited, in loop order
Cells2dForwardPass1(co, gm) ==
  LET ys == SelectSeq([iy \in 1..gm.kernel_h |-> co.ph * gm.stride_h + (iy - 1) - gm.kernel_h \div 2],
                     LAMBDA y_offset : ~(y_offset >= gm.height \/ y_offset < 0))
      xs == SelectSeq([ix \in 1..gm.kernel_w |-> co.pw * gm.stride_w + (ix - 1) - gm.kernel_w \div 2],
                     LAMBDA x_offset : ~(x_offset >= gm.width \/ x_offset < 0))
  IN  Concat([j \in 1..Len(ys) |-> [k \in 1..Len(xs) |-> <<0, ys[j], xs[k]>>]])

\* second loop nest: the coordinates <<d, y, x>> visited, in loop order
Cells2dForwardPass2(co, gm) ==
  LET ys == SelectSeq([iy \in 1..gm.kernel_h |-> co.ph * gm.stride_h + (iy - 1) - gm.kernel_h \div 2],
                     LAMBDA y_offset : ~(y_offset >= gm.height \/ y_offset < 0))
      xs == SelectSeq([ix \in 1..gm.kernel_w |-> co.pw * gm.stride_w + (ix - 1) - gm.kernel_w \div 2],
                     LAMBDA x_offset : ~(x_offset >= gm.width \/ x_offset < 0))
  IN  Concat([j \in 1..Len(ys) |-> [k \in 1..Len(xs) |-> <<0, ys[j], xs[k]>>]])

\* const int offset = ...: the cell's place in its (batch, channel) slice
Addr2dForward(p, gm) == p[2] * gm.width + p[3]

\* (n * channels + c) * extents: where the slice starts
Offset2dForward(co, gm) == (co.n * gm.channels + co.c) * gm.height * gm.width

(* --------------------------- SoftPool3dForward ------------------------- *)
Decode3dForward(index, gm) ==
  LET pooled_depth == gm.depth \div gm.stride_d
      pooled_height == gm.height \div gm.stride_h
      pooled_width == gm.width \div gm.stride_w
  IN  [pw |-> index % pooled_width,
       ph |-> (index \div pooled_width) % pooled_height,
       pd |-> ((index \div pooled_width) \div pooled_height) % pooled_depth,
       c  |-> (((index \div pooled_width) \div pooled_height) \div pooled_depth)
                % gm.channels,
       n  |-> (((index \div pooled_width) \div pooled_height) \div pooled_depth)
                \div gm.channels]

\* a pooled extent of 0 is a divisor of the index decomposition
ZeroDivisor3dForward(gm) ==
  gm.depth \div gm.stride_d = 0 \/ gm.height \div gm.stride_h = 0 \/ gm.width \div gm.stride_w = 0

\* first loop nest: the coordinates <<d, y, x>> visited, in loop order
Cells3dForwardPass1(co, gm) ==
  LET ds == SelectSeq([id \in 1..gm.kernel_d |-> co.pd * gm.stride_d + (id - 1) - gm.kernel_d \div 2],
                     LAMBDA d_offset : ~(d_offset >= gm.depth \/ d_offset < 0))
      ys == SelectSeq([iy \in 1..gm.kernel_h |-> co.ph * gm.stride_h + (iy - 1) - gm.kernel_h \div 2],
                     LAMBDA y_offset : ~(y_offset >= gm.height \/ y_offset < 0))
      xs == SelectSeq([ix \in 1..gm.kernel_w |-> co.pw * gm.stride_w + (ix - 1) - gm.kernel_w \div 2],
                     LAMBDA x_offset : ~(x_offset >= gm.width \/ x_offset < 0))
  IN  Concat([i \in 1..Len(ds) |->
        Concat([j \in 1..Len(ys) |-> [k \in 1..Len(xs) |-> <<ds[i], ys[j], xs[k]>>]])])

\* second loop nest: the coordinates <<d, y, x>> visited, in loop order
Cells3dForwardPass2(co, gm) ==
  LET ds == SelectSeq([id \in 1..gm.kernel_d |-> co.pd * gm.stride_d + (id - 1) - gm.kernel_d \div 2],
                     LAMBDA d_offset : ~(d_offset >= gm.depth \/ d_offset < 0))
      ys == SelectSeq([iy \in 1..gm.kernel_h |-> co.ph * gm.stride_h + (iy - 1) - gm.kernel_h \div 2],
                     LAMBDA y_offset : ~(y_offset >= gm.height \/ y_offset < 0))
      xs == SelectSeq([ix \in 1..gm.kernel_w |-> co.pw * gm.stride_w + (ix - 1) - gm.kernel_w \div 2],
                     LAMBDA x_offset : ~(x_offset >= gm.width \/ x_offset < 0))
  IN  Concat([i \in 1..Len(ds) |->
        Concat([j \in 1..Len(ys) |-> [k \in 1..Len(xs) |-> <<ds[i], ys[j], xs[k]>>]])])

\* const int offset = ...: the cell's place in its (batch, channel) slice
Addr3dForward(p, gm) == p[1] * gm.height + p[2] * gm.width + p[3]

\* (n * channels + c) * extents: where the slice starts
Offset3dForward(co, gm) == (co.n * gm.channels + co.c) * gm.depth * gm.height * gm.width

(* --------------------------- SoftPool1dBackward ------------------------- *)
\* the 1D kernels name their extent dim: it is held in gm.depth
Decode1dBackward(index, gm) ==
  LET pooled_dim == gm.depth \div gm.stride_d
  IN  [pw |-> 0, ph |-> 0,
       pd |-> index % pooled_dim,
       c  |-> (index \div pooled_dim) % gm.channels,
       n  |-> (index \div pooled_dim) \div gm.channels]

\* a pooled extent of 0 is a divisor of the index decomposition
ZeroDivisor1dBackward(gm) == gm.depth \div gm.stride_d = 0

\* first loop nest: the coordinates <<d, y, x>> visited, in loop order
Cells1dBackwardPass1(co, gm) ==
  LET ds == SelectSeq([id \in 1..gm.kernel_d |-> (co.pd * gm.stride_d - gm.kernel_d \div 2) + (id - 1)],
                     LAMBDA d_offset : ~(d_offset >= gm.depth \/ d_offset < 0))
  IN  [j \in 1..Len(ds) |-> <<ds[j], 0, 0>>]

\* second loop nest: the coordinates <<d, y, x>> visited, in loop order
Cells1dBackwardPass2(co, gm) ==
  LET ds == SelectSeq([id \in 1..gm.kernel_d |-> (co.pd * gm.stride_d - gm.kernel_d \div 2) + (id - 1)],
                     LAMBDA d_offset : ~(d_offset >= gm.depth \/ d_offset < 0))
  IN  [j \in 1..Len(ds) |-> <<ds[j], 0, 0>>]

\* const int offset = ...: the cell's place in its (batch, channel) slice
Addr1dBackward(p, gm) == p[1]

\* (n * channels + c) * extents: where the slice starts
Offset1dBackward(co, gm) == (co.n * gm.channels + co.c) * gm.depth

(* --------------------------- SoftPool2dBackward ------------------------- *)
Decode2dBackward(index, gm) ==
  LET pooled_height == gm.height \div gm.stride_h
      pooled_width == gm.width \div gm.stride_w
  IN  [pw |-> index % pooled_width,
       ph |-> (index \div pooled_width) % pooled_height,
       pd |-> 0,
       c  |-> ((index \div pooled_width) \div pooled_height) % gm.channels,
       n  |-> ((index \div pooled_width) \div pooled_height) \div gm.channels]

\* a pooled extent of 0 is a divisor of the index decomposition
ZeroDivisor2dBackward(gm) ==
  gm.height \div gm.stride_h = 0 \/ gm.width \div gm.stride_w = 0

\* first loop nest: the coordinates <<d, y, x>> visited, in loop order
Cells2dBackwardPass1(co, gm) ==
  LET ys == SelectSeq([iy \in 1..gm.kernel_h |-> (co.ph * gm.stride_h - gm.kernel_h \div 2) + (iy - 1)],
                     LAMBDA y_offset : ~(y_offset >= gm.height \/ y_offset < 0))
      xs == SelectSeq([ix \in 1..gm.kernel_w |-> (co.pw * gm.stride_w - gm.kernel_w \div 2) + (ix - 1)],
                     LAMBDA x_offset : ~(x_offset >= gm.width \/ x_offset < 0))
  IN  Concat([j \in 1..Len(ys) |-> [k \in 1..Len(xs) |-> <<0, ys[j], xs[k]>>]])

\* second loop nest: the coordinates <<d, y, x>> visited, in loop order
Cells2dBackwardPass2(co, gm) ==
  LET ys == SelectSeq([iy \in 1..gm.kernel_h |-> (co.ph * gm.stride_h - gm.kernel_h \div 2) + (iy - 1)],
                     LAMBDA y_offset : ~(y_offset >= gm.height \/ y_offset < 0))
      xs == SelectSeq([ix \in 1..gm.kernel_w |-> (co.pw * gm.stride_w - gm.kernel_w \div 2) + (ix - 1)],
                     LAMBDA x_offset : ~(x_offset >= gm.width \/ x_offset < 0))
  IN  Concat([j \in 1..Len(ys) |-> [k \in 1..Len(xs) |-> <<0, ys[j], xs[k]>>]])

\* const int offset = ...: the cell's place in its (batch, channel) slice
Addr2dBackward(p, gm) == p[2] * gm.width + p[3]

\* (n * channels + c) * extents: where the slice starts
Offset2dBackward(co, gm) == (co.n * gm.channels + co.c) * gm.height * gm.width

(* --------------------------- SoftPool3dBackward ------------------------- *)
Decode3dBackward(index, gm) ==
  LET pooled_depth == gm.depth \div gm.stride_d
      pooled_height == gm.width \div gm.stride_h
      pooled_width == gm.width \div gm.stride_w
  IN  [pw |-> index % pooled_width,
       ph |-> (index \div pooled_width) % pooled_height,
       pd |-> ((index \div pooled_width) \div pooled_height) % pooled_depth,
       c  |-> (((index \div pooled_width) \div pooled_height) \div pooled_depth)
                % gm.channels,
       n  |-> (((index \div pooled_width) \div pooled_height) \div pooled_depth)
                \div gm.channels]

\* a pooled extent of 0 is a divisor of the index decomposition
ZeroDivisor3dBackward(gm) ==
  gm.depth \div gm.stride_d = 0 \/ gm.width \div gm.stride_h = 0 \/ gm.width \div gm.stride_w = 0

\* first loop nest: the coordinates <<d, y, x>> visited, in loop order
Cells3dBackwardPass1(co, gm) ==
  LET ds == SelectSeq([id \in 1..gm.kernel_d |-> (co.pd * gm.stride_d - gm.kernel_d \div 2) + (id - 1)],
                     LAMBDA d_offset : ~(d_offset >= gm.depth \/ d_offset < 0))
      ys == SelectSeq([iy \in 1..gm.kernel_h |-> (co.ph * gm.stride_h - gm.kernel_h \div 2) + (iy - 1)],
                     LAMBDA y_offset : ~(y_offset >= gm.height \/ y_offset < 0))
      xs == SelectSeq([ix \in 1..gm.kernel_w |-> (co.pw * gm.stride_w - gm.kernel_w \div 2) + (ix - 1)],
                     LAMBDA x_offset : ~(x_offset >= gm.width \/ x_offset < 0))
  IN  Concat([i \in 1..Len(ds) |->
        Concat([j \in 1..Len(ys) |-> [k \in 1..Len(xs) |-> <<ds[i], ys[j], xs[k]>>]])])

\* second loop nest: the coordinates <<d, y, x>> visited, in loop order
Cells3dBackwardPass2(co, gm) ==
  LET ds == SelectSeq([id \in 1..gm.kernel_d |-> (co.pd * gm.stride_d - gm.kernel_d \div 2) + (id - 1)],
                     LAMBDA d_offset : ~(d_offset >= gm.depth \/ d_offset < 0))
      ys == SelectSeq([iy \in 1..gm.kernel_h |-> (co.ph * gm.stride_h - gm.kernel_h \div 2) + (iy - 1)],
                     LAMBDA y_offset : ~(y_offset >= gm.height \/ y_offset < 0))
      xs == SelectSeq([ix \in 1..gm.kernel_w |-> (co.pw * gm.stride_w - gm.kernel_w \div 2) + (ix - 1)],
                     LAMBDA x_offset : ~(x_offset >= gm.width \/ x_offset < 0))
  IN  Concat([i \in 1..Len(ds) |->
        Concat([j \in 1..Len(ys) |-> [k \in 1..Len(xs) |-> <<ds[i], ys[j], xs[k]>>]])])

\* const int offset = ...: the cell's place in its (batch, channel) slice
Addr3dBackward(p, gm) == p[1] * gm.height + p[2] * gm.width + p[3]

\* (n * channels + c) * extents: where the slice starts
Offset3dBackward(co, gm) == (co.n * gm.channels + co.c) * gm.depth * gm.height * gm.width

(* ------------------- the kernels, by operation and rank ---------------- *)
Decode(o, r, index, gm) ==
  CASE o = "fwd" /\ r = 1 -> Decode1dForward(index, gm)
    [] o = "fwd" /\ r = 2 -> Decode2dForward(index, gm)
    [] o = "fwd" /\ r = 3 -> Decode3dForward(index, gm)
    [] o = "bwd" /\ r = 1 -> Decode1dBackward(index, gm)
    [] o = "bwd" /\ r = 2 -> Decode2dBackward(index, gm)
    [] o = "bwd" /\ r = 3 -> Decode3dBackward(index, gm)

ZeroDivisor(o, r, gm) ==
  CASE o = "fwd" /\ r = 1 -> ZeroDivisor1dForward(gm)
    [] o = "fwd" /\ r = 2 -> ZeroDivisor2dForward(gm)
    [] o = "fwd" /\ r = 3 -> ZeroDivisor3dForward(gm)
    [] o = "bwd" /\ r = 1 -> ZeroDivisor1dBackward(gm)
    [] o = "bwd" /\ r = 2 -> ZeroDivisor2dBackward(gm)
    [] o = "bwd" /\ r = 3 -> ZeroDivisor3dBackward(gm)

CellsPass1(o, r, co, gm) ==
  CASE o = "fwd" /\ r = 1 -> Cells1dForwardPass1(co, gm)
    [] o = "fwd" /\ r = 2 -> Cells2dForwardPass1(co, gm)
    [] o = "fwd" /\ r = 3 -> Cells3dForwardPass1(co, gm)
    [] o = "bwd" /\ r = 1 -> Cells1dBackwardPass1(co, gm)
    [] o = "bwd" /\ r = 2 -> Cells2dBackwardPass1(co, gm)
    [] o = "bwd" /\ r = 3 -> Cells3dBackwardPass1(co, gm)

CellsPass2(o, r, co, gm) ==
  CASE o = "fwd" /\ r = 1 -> Cells1dForwardPass2(co, gm)
    [] o = "fwd" /\ r = 2 -> Cells2dForwardPass2(co, gm)
    [] o = "fwd" /\ r = 3 -> Cells3dForwardPass2(co, gm)
    [] o = "bwd" /\ r = 1 -> Cells1dBackwardPass2(co, gm)
    [] o = "bwd" /\ r = 2 -> Cells2dBackwardPass2(co, gm)
    [] o = "bwd" /\ r = 3 -> Cells3dBackwardPass2(co, gm)

Addr(o, r, p, gm) ==
  CASE o = "fwd" /\ r = 1 -> Addr1dForward(p, gm)
    [] o = "fwd" /\ r = 2 -> Addr2dForward(p, gm)
    [] o = "fwd" /\ r = 3 -> Addr3dForward(p, gm)
    [] o = "bwd" /\ r = 1 -> Addr1dBackward(p, gm)
    [] o = "bwd" /\ r = 2 -> Addr2dBackward(p, gm)
    [] o = "bwd" /\ r = 3 -> Addr3dBackward(p, gm)

Offset(o, r, co, gm) ==
  CASE o = "fwd" /\ r = 1 -> Offset1dForward(co, gm)
    [] o = "fwd" /\ r = 2 -> Offset2dForward(co, gm)
    [] o = "fwd" /\ r = 3 -> Offset3dForward(co, gm)
    [] o = "bwd" /\ r = 1 -> Offset1dBackward(co, gm)
    [] o = "bwd" /\ r = 2 -> Offset2dBackward(co, gm)
    [] o = "bwd" /\ r = 3 -> Offset3dBackward(co, gm)

\* the registers of the thread that runs the loop body for index, up to its
\* first access to memory: the decoded coordinates, the slice offset, and the
\* cells (coordinates, and addresses in the buffer) each loop nest visits
RegistersAt(o, r, index, gm, co, base, c1, c2) ==
  [index |-> index, co |-> co, offset |-> base,
   cells1 |-> c1, cells2 |-> c2,
   addr1 |-> [k \in 1..Len(c1) |-> base + Addr(o, r, c1[k], gm)],
   addr2 |-> [k \in 1..Len(c2) |-> base + Addr(o, r, c2[k], gm)]]

RegistersOf(o, r, index, gm, co) ==
  RegistersAt(o, r, index, gm, co, Offset(o, r, co, gm),
              CellsPass1(o, r, co, gm), CellsPass2(o, r, co, gm))

Registers(o, r, index, gm) ==
  RegistersOf(o, r, index, gm, Decode(o, r, index, gm))

\* the loop body for index leaves the buffers: it reads the input outside
\* 0..InputSize-1, or touches output_data / diff_output at an index that was
\* not allocated
AddressesLeave(rg, index, gm) ==
  \/ index >= OutputAlloc(gm)
  \/ \E k \in 1..Len(rg.addr1) : rg.addr1[k] >= InputSize(gm)
  \/ \E k \in 1..Len(rg.addr2) : rg.addr2[k] >= InputSize(gm)

OutOfBounds(o, r, index, gm) ==
  AddressesLeave(Registers(o, r, index, gm), index, gm)

\* the loop body for index has undefined behaviour
Undefined(o, r, index, gm) ==
  IF ZeroDivisor(o, r, gm) THEN TRUE ELSE OutOfBounds(o, r, index, gm)

(* ------------------------------ launchers ------------------------------ *)
THREADS_PER_BLOCK == 1024
max_block_num == 65000

\* the smaller of two ints
Min(a, b) == IF a < b THEN a ELSE b

GET_BLOCKS(N) ==
  LET optimal_block_num == (N + THREADS_PER_BLOCK - 1) \div THREADS_PER_BLOCK
  IN  Min(optimal_block_num, max_block_num)

\* const int output_size = ...: int arithmetic, evaluated left to right
OutputSize1dForwardLauncher(gm) ==
  ((gm.batches * gm.depth) \div gm.stride_d) * gm.channels

OutputSize2dForwardLauncher(gm) ==
  ((((gm.batches * gm.height) \div gm.stride_h) * gm.width) \div gm.stride_w)
    * gm.channels

OutputSize3dForwardLauncher(gm) ==
  ((((((gm.batches * gm.depth) \div gm.stride_d) * gm.height) \div gm.stride_h)
      * gm.width) \div gm.stride_w) * gm.channels

OutputSize1dBackwardLauncher(gm) ==
  ((gm.batches * gm.depth) \div gm.stride_d) * gm.channels

OutputSize2dBackwardLauncher(gm) ==
  ((((gm.batches * gm.height) \div gm.stride_h) * gm.width) \div gm.stride_w)
    * gm.channels

OutputSize3dBackwardLauncher(gm) ==
  ((((((gm.batches * gm.depth) \div gm.stride_d) * gm.height) \div gm.stride_h)
      * gm.width) \div gm.stride_w) * gm.channels

OutputSize(o, r, gm) ==
  CASE o = "fwd" /\ r = 1 -> OutputSize1dForwardLauncher(gm)
    [] o = "fwd" /\ r = 2 -> OutputSize2dForwardLauncher(gm)
    [] o = "fwd" /\ r = 3 -> OutputSize3dForwardLauncher(gm)
    [] o = "bwd" /\ r = 1 -> OutputSize1dBackwardLauncher(gm)
    [] o = "bwd" /\ r = 2 -> OutputSize2dBackwardLauncher(gm)
    [] o = "bwd" /\ r = 3 -> OutputSize3dBackwardLauncher(gm)

\* the kernel launch <<<GET_BLOCKS(output_size), THREADS_PER_BLOCK>>>: it is
\* asynchronous, the host goes on while the threads run.  A grid of 0 blocks
\* is an invalid configuration: the launch fails and no thread runs.  The
\* threads whose first index is below nthreads enter the loop.
Launch ==
  /\ host = "call"
  /\ host' = "launched"
  /\ nthreads' = OutputSize(op, rank, g)
  /\ gridDim' = GET_BLOCKS(OutputSize(op, rank, g))
  /\ err' = IF gridDim' = 0 THEN "cudaErrorInvalidConfiguration" ELSE err
  /\ thr' = [t \in 0..(Min(nthreads', gridDim' * THREADS_PER_BLOCK) - 1) |->
               [i |-> t, pc |-> "run", k |-> 0, tmp |-> 0]]
  /\ UNCHANGED <<op, rank, g, bottom_input, diff_output, output_data,
                 diff_input, loc>>

\* cudaGetLastError() and what follows it: exit(-1) on an error, return 1
\* otherwise.  Nothing between the launch and this call waits for the kernel.
HostCheck ==
  /\ host = "launched"
  /\ host' = IF err # "cudaSuccess" THEN "exited" ELSE "returned"
  /\ UNCHANGED <<op, rank, g, bottom_input, diff_output, output_data,
                 diff_input, nthreads, gridDim, err, thr, loc>>

(* ------------------------------- threads ------------------------------- *)
\* the largest int
INT_MAX == 2147483647

\* int i += unsigned b: the sum modulo 2^32, read back as an int
AddInt(a, b) ==
  IF a > INT_MAX - b THEN (a - INT_MAX - 1) + (b - INT_MAX - 1) ELSE a + b

\* CUDA_1D_KERNEL_LOOP: i += blockDim.x * gridDim.x; i < n
NextIndex(th) ==
  LET i2 == AddInt(th.i, THREADS_PER_BLOCK * gridDim)
  IN  [i |-> i2, pc |-> IF i2 < nthreads THEN "run" ELSE "done", k |-> 0, tmp |-> 0]

\* the values a loop nest reads
Reads(buf, addrs) == [k \in 1..Len(addrs) |-> buf[addrs[k]]]

\* the registers of a thread after its two loop nests
LocalsWith(rg, vals2, ms) ==
  [index |-> rg.index, co |-> rg.co, offset |-> rg.offset,
   cells1 |-> rg.cells1, cells2 |-> rg.cells2,
   addr1 |-> rg.addr1, addr2 |-> rg.addr2,
   mask_sum |-> ms,
   mask |-> [k \in 1..Len(vals2) |-> NormMask(vals2[k], ms)],
   out |-> AccumulateLoop(vals2, ms, 0)]

LocalsOf(rg, input) ==
  LocalsWith(rg, Reads(input, rg.addr2), MaskSum(Reads(input, rg.addr1)))

Locals(o, r, index, gm, input) == LocalsOf(Registers(o, r, index, gm), input)

Record(index, rec) == [x \in DOMAIN loc \cup {index} |-> IF x = index THEN rec ELSE loc[x]]

\* a loop body with undefined behaviour: the device may raise a fault, or
\* the body may go by without touching the tensors
UndefinedBody(t) ==
  /\ thr[t].pc = "run"
  /\ host # "call"
  /\ Undefined(op, rank, thr[t].i, g)
  /\ thr' = [thr EXCEPT ![t] = NextIndex(thr[t])]
  /\ err' \in {err, "cudaErrorIllegalAddress"}
  /\ UNCHANGED <<op, rank, g, bottom_input, diff_output, output_data,
                 diff_input, host, nthreads, gridDim, loc>>

\* one pass of a forward kernel's loop body, for thread t's current index
ForwardBody(t) ==
  /\ thr[t].pc = "run"
  /\ op = "fwd"
  /\ ~Undefined(op, rank, thr[t].i, g)
  /\ \E lc \in {Locals(op, rank, thr[t].i, g, bottom_input)} :
       /\ output_data' = [output_data EXCEPT ![thr[t].i] = lc.out]
       /\ loc' = Record(thr[t].i, lc)
  /\ thr' = [thr EXCEPT ![t] = NextIndex(thr[t])]
  /\ UNCHANGED <<op, rank, g, bottom_input, diff_output, diff_input,
                 host, nthreads, gridDim, err>>

\* a scatter that reads the cell, adds, and writes the sum back
plainAdd(cur, old, val) == FAdd(old, val)

\* a scatter that stores the contribution over what the cell holds
atomicExch(cur, old, val) == val

\* atomicAdd(address, val): cur is the cell when the add takes effect, old
\* what the cell held when the thread reached the instruction
atomicAdd(cur, old, val) == FAdd(cur, val)

\* a backward kernel's loop body up to the second loop nest
BackwardBody(t) ==
  /\ thr[t].pc = "run"
  /\ op = "bwd"
  /\ ~Undefined(op, rank, thr[t].i, g)
  /\ \E lc \in {Locals(op, rank, thr[t].i, g, bottom_input)} :
       /\ loc' = Record(thr[t].i, lc)
       /\ thr' = [thr EXCEPT ![t] =
                    IF Len(lc.addr2) = 0 THEN NextIndex(thr[t])
                    ELSE [thr[t] EXCEPT !.pc = "scatter", !.k = 0]]
  /\ UNCHANGED <<op, rank, g, bottom_input, diff_output, output_data,
                 diff_input, host, nthreads, gridDim, err>>

\* the thread reaches atomicAdd(offset_diff_input + offset, weighted_grad)
AtomicAddIssue(t) ==
  /\ thr[t].pc = "scatter"
  /\ LET lc == loc[thr[t].i]
     IN  thr' = [thr EXCEPT ![t].pc = "add",
                            ![t].tmp = diff_input[lc.addr2[thr[t].k + 1]]]
  /\ UNCHANGED <<op, rank, g, bottom_input, diff_output, output_data,
                 diff_input, host, nthreads, gridDim, err, loc>>

\* the add takes effect; the loop nest goes on, or the body ends
AtomicAddCommit(t) ==
  /\ thr[t].pc = "add"
  /\ LET lc == loc[thr[t].i]
         a == lc.addr2[thr[t].k + 1]
         weighted_grad == WeightedGrad(diff_output[thr[t].i], bottom_input[a], lc.mask_sum)
     IN  /\ diff_input' = [diff_input EXCEPT
                             ![a] = atomicAdd(diff_input[a], thr[t].tmp, weighted_grad)]
         /\ thr' = [thr EXCEPT ![t] =
                      IF thr[t].k + 1 = Len(lc.addr2) THEN NextIndex(thr[t])
                      ELSE [thr[t] EXCEPT !.pc = "scatter", !.k = @ + 1, !.tmp = 0]]
  /\ UNCHANGED <<op, rank, g, bottom_input, diff_output, output_data,
                 host, nthreads, gridDim, err, loc>>

\* the index decomposition and the loop nests of one index, nothing written
KernelRegisters(index) ==
  /\ host = "launched"
  /\ index < nthreads
  /\ ~ZeroDivisor(op, rank, g)
  /\ loc' = [x \in {index} |-> Registers(op, rank, index, g)]
  /\ UNCHANGED <<op, rank, g, bottom_input, diff_output, output_data,
                 diff_input, host, nthreads, gridDim, err, thr>>

(* ---------------------------- initial states --------------------------- *)
Batches == {1, 2}
Channels == {1, 2}

\* the finite values a tensor cell is drawn from: the largest magnitudes,
\* one whose exponential is subnormal, the smallest normal magnitude
Values == {-upper, -6 * ONE, -ONE, 0, lower, ONE, upper}

Geom1d(bs, cs, dims, ks, ss) ==
  [batches : bs, channels : cs, depth : dims, height : {1}, width : {1},
   kernel_d : ks, kernel_h : {1}, kernel_w : {1},
   stride_d : ss, stride_h : {1}, stride_w : {1}]

Geom2d(bs, cs, exts, ks, ss) ==
  [batches : bs, channels : cs, depth : {1}, height : exts, width : exts,
   kernel_d : {1}, kernel_h : ks, kernel_w : ks,
   stride_d : {1}, stride_h : ss, stride_w : ss]

Geom3d(bs, cs, exts, ks, ss) ==
  [batches : bs, channels : cs, depth : exts, height : exts, width : exts,
   kernel_d : ks, kernel_h : ks, kernel_w : ks,
   stride_d : ss, stride_h : ss, stride_w : ss]

\* the tensors as the caller hands them over: input and output gradient hold
\* any of the given values, the output and the input gradient are zero-filled
InitTensors(inVals, gradVals) ==
  /\ bottom_input \in [0..(InputSize(g) - 1) -> inVals]
  /\ diff_output \in [0..(OutputAlloc(g) - 1) -> gradVals]
  /\ output_data = [k \in 0..(OutputAlloc(g) - 1) |-> 0]
  /\ diff_input = [k \in 0..(InputSize(g) - 1) |-> 0]

InitHost ==
  /\ host = "call"
  /\ nthreads = 0
  /\ gridDim = 0
  /\ err = "cudaSuccess"
  /\ thr = <<>>
  /\ loc = <<>>

(* ------------- 1D forward on every input: the numeric passes ----------- *)
InitNum ==
  /\ op = "fwd"
  /\ rank = 1
  /\ g \in Geom1d({1}, {1}, 1..NumDim, 1..MaxKernel, 1..MaxStride)
  /\ InitTensors(Values, {0})
  /\ InitHost

NextNum == Launch \/ \E t \in DOMAIN thr : ForwardBody(t)

SpecNum == InitNum /\ [][NextNum]_vars

RECURSIVE SumSeq(_)
SumSeq(sq) == IF sq = <<>> THEN 0 ELSE Head(sq) + SumSeq(Tail(sq))

\* the input values of the cells a processed index visited in its second loop
WindowValues(i) == Reads(bottom_input, loc[i].addr2)

C7_WeightSumInRange ==
  \A i \in DOMAIN loc : loc[i].mask_sum >= lower /\ loc[i].mask_sum <= upper

\* C8: for every window with at least one valid cell, the normalized weights
\* of forward step 3 are each non-negative and sum to a value in (0, 1].
C8_WeightsSumToUnit ==
  \A i \in DOMAIN loc :
    Len(loc[i].mask) >= 1 =>
      /\ \A k \in 1..Len(loc[i].mask) : loc[i].mask[k] >= 0
      /\ SumSeq(loc[i].mask) > 0
      /\ SumSeq(loc[i].mask) <= ONE

(* --------------- 1D forward on the inputs of the scenario -------------- *)
InitEx ==
  /\ op = "fwd"
  /\ rank = 1
  /\ g \in Geom1d({1}, {1}, 1..MaxDim, 1..MaxKernel, 1..MaxStride)
  /\ InitTensors({0, ONE}, {0})
  /\ InitHost

NextEx == Launch \/ \E t \in DOMAIN thr : ForwardBody(t)

SpecEx == InitEx /\ [][NextEx]_vars

\* the set of input indices a processed index visited
Window(i) == SeqToSet(loc[i].addr2)

\* C3: 1D forward on extent 4 with kernel 2 and stride 2 produces two output
\* cells whose windows are {0,1} and {2,3}, so input [0, 1, 0, 1] yields two
\* equal outputs.
C3_TwoEqualWindows ==
  ( /\ g.depth = 4 /\ g.kernel_d = 2 /\ g.stride_d = 2
    /\ bottom_input = [k \in 0..3 |-> IF k % 2 = 0 THEN 0 ELSE ONE]
    /\ \A t \in DOMAIN thr : thr[t].pc = "done"
    /\ host = "launched" )
  => /\ DOMAIN loc = {0, 1}
     /\ Window(0) = {0, 1}
     /\ Window(1) = {2, 3}
     /\ output_data[0] = output_data[1]

(* ------- index decomposition and loop nests, 1D and 2D, no tensor ------ *)
InitGeo ==
  /\ op \in {"fwd", "bwd"}
  /\ rank \in {1, 2}
  /\ g \in IF rank = 1
           THEN Geom1d(Batches, Channels, 1..MaxDim, 1..MaxKernel, 1..MaxStride)
           ELSE Geom2d(Batches, Channels, 1..MaxExt, 1..MaxKernel, 1..MaxStride)
  /\ InitTensors({0}, {0})
  /\ InitHost

NextGeo == Launch \/ \E index \in 0..(nthreads - 1) : KernelRegisters(index)

SpecGeo == InitGeo /\ [][NextGeo]_vars

\* po*stride + off - kernel/2 for 0 <= off < kernel, kept when inside the axis
AxisWindow(po, stride, kernel, extent) ==
  {x \in 0..(extent - 1) :
     \E off \in 0..(kernel - 1) : x = po * stride + off - kernel \div 2}

\* the cells of the window of output coordinate co: the product over the axes
WindowCells(co, gm) ==
  {<<d, y, x>> : d \in AxisWindow(co.pd, gm.stride_d, gm.kernel_d, gm.depth),
                 y \in AxisWindow(co.ph, gm.stride_h, gm.kernel_h, gm.height),
                 x \in AxisWindow(co.pw, gm.stride_w, gm.kernel_w, gm.width)}

InSlice(p, gm) ==
  /\ 0 <= p[1] /\ p[1] < gm.depth
  /\ 0 <= p[2] /\ p[2] < gm.height
  /\ 0 <= p[3] /\ p[3] < gm.width

\* C2: the cells that contribute to an output cell are exactly
\* { po*stride + off - kernel/2 : 0 <= off < kernel } restricted to
\* 0 <= coordinate < extent, product over the axes; both loop nests visit
\* that same set, each cell once, and no coordinate outside the slice is read.
C2_WindowIsCandidateSet ==
  \A i \in DOMAIN loc :
    /\ SeqToSet(loc[i].cells1) = WindowCells(loc[i].co, g)
    /\ SeqToSet(loc[i].cells2) = WindowCells(loc[i].co, g)
    /\ loc[i].cells1 = loc[i].cells2
    /\ Len(loc[i].cells1) = Cardinality(WindowCells(loc[i].co, g))
    /\ \A k \in 1..Len(loc[i].cells1) : InSlice(loc[i].cells1[k], g)
    /\ \A k \in 1..Len(loc[i].cells2) : InSlice(loc[i].cells2[k], g)

\* a forward 2D output cell at the border: candidates of both axes were
\* skipped, and cells remain
C2_Witness ==
  \E i \in DOMAIN loc :
    /\ op = "fwd" /\ rank = 2
    /\ Len(loc[i].cells2) >= 2
    /\ Len(loc[i].cells2) < g.kernel_h * g.kernel_w
    /\ loc[i].co.ph > 0

\* C4: the number of output cells handed to the kernel equals
\* batch x channel x the product over the axes of floor(extent / stride).
C4_OutputSizeIsFloorProduct ==
  host # "call" => nthreads = OutputAlloc(g)

(* ------------- index decomposition and loop nests, 3D ------------------ *)
InitGeo3 ==
  /\ op \in {"fwd", "bwd"}
  /\ rank = 3
  /\ g \in Geom3d(Batches, Channels, 1..MaxExt, {1, 2}, 1..MaxStride)
  /\ InitTensors({0}, {0})
  /\ InitHost

NextGeo3 == Launch \/ \E index \in 0..(nthreads - 1) : KernelRegisters(index)

SpecGeo3 == InitGeo3 /\ [][NextGeo3]_vars

\* row-major place of <<d, y, x>> in a depth x height x width slice
RowMajor(p, gm) == (p[1] * gm.height + p[2]) * gm.width + p[3]

\* C5: in the 3D kernels the cell at (d, y, x) of a slice is addressed at
\* offset (d*height + y)*width + x, so distinct in-range coordinates address
\* distinct cells.
C5_RowMajorAddress ==
  \A i \in DOMAIN loc :
    /\ \A k \in 1..Len(loc[i].cells2) :
         loc[i].addr2[k] = loc[i].offset + RowMajor(loc[i].cells2[k], g)
    /\ \A k, m \in 1..Len(loc[i].cells2) :
         loc[i].cells2[k] # loc[i].cells2[m] => loc[i].addr2[k] # loc[i].addr2[m]

\* C9: the backward kernel decodes an output-cell index to the same
\* coordinates as the forward kernel and sums its weights over the same
\* input cells.
C9_BackwardDecodesAsForward ==
  \A i \in DOMAIN loc :
    (op = "bwd" /\ ~ZeroDivisor("fwd", rank, g)) =>
      /\ loc[i].co = Decode("fwd", rank, i, g)
      /\ SeqToSet(loc[i].addr1) = SeqToSet(Registers("fwd", rank, i, g).addr1)

(* ------------- backward kernels, 1D and 2D: the scatter ---------------- *)
\* one batch and one channel, square kernels and strides, and a launch whose
\* thread count is the number of output cells the caller allocated
BwdGeoms(r) ==
  {gm \in IF r = 1
          THEN Geom1d({1}, {1}, 1..BwdDim, 1..MaxKernel, 1..MaxStride)
          ELSE Geom2d({1}, {1}, {1, 2}, 1..MaxKernel, 1..MaxStride) :
     /\ gm.kernel_h = gm.kernel_w
     /\ gm.stride_h = gm.stride_w
     /\ OutputSize("bwd", r, gm) = OutputAlloc(gm)}

InitBwd ==
  /\ op = "bwd"
  /\ rank \in {1, 2}
  /\ g \in BwdGeoms(rank)
  /\ \E first \in {0, 1} :
       bottom_input = [k \in 0..(InputSize(g) - 1) |-> ((k + first) % 2) * ONE]
  /\ diff_output = [o \in 0..(OutputAlloc(g) - 1) |->
                      IF o % 2 = 0 THEN (o + 1) * ONE ELSE -((o + 1) * ONE)]
  /\ output_data = [k \in 0..(OutputAlloc(g) - 1) |-> 0]
  /\ diff_input = [k \in 0..(InputSize(g) - 1) |-> 0]
  /\ InitHost

NextBwd ==
  \/ Launch
  \/ \E t \in DOMAIN thr : BackwardBody(t)
  \/ \E t \in DOMAIN thr : AtomicAddIssue(t)
  \/ \E t \in DOMAIN thr : AtomicAddCommit(t)

SpecBwd == InitBwd /\ [][NextBwd]_vars

\* the launch happened and every thread left its loop
KernelDone == host # "call" /\ \A t \in DOMAIN thr : thr[t].pc = "done"

\* the input cells the window of output cell o covers, as places in the buffer
Covers(o, a) ==
  \E p \in WindowCells(loc[o].co, g) : a = loc[o].offset + RowMajor(p, g)

\* output cell o's gradient times the normalized weight of input cell a in
\* o's window
Contribution(o, a) ==
  IF Covers(o, a)
  THEN WeightedGrad(diff_output[o], bottom_input[a], loc[o].mask_sum)
  ELSE 0

ExpectedGrad(a) == SumSeq([k \in 1..OutputAlloc(g) |-> Contribution(k - 1, a)])

\* C1: once all threads of the backward kernel (1D, 2D) have finished, on a
\* zeroed input_grad, each input cell holds the sum over exactly the output
\* cells whose window covers it of that cell's gradient times the input
\* cell's normalized weight, whatever the interleaving: every contribution
\* is there once and none is lost.
C1_GradIsSumOfContributions ==
  KernelDone =>
    /\ DOMAIN loc = 0..(OutputAlloc(g) - 1)
    /\ \A a \in DOMAIN diff_input : diff_input[a] = ExpectedGrad(a)

\* the 2D kernel finished and an input cell received non-zero contributions
\* of at least two output cells
C1_Witness ==
  /\ KernelDone
  /\ rank = 2
  /\ DOMAIN loc = 0..(OutputAlloc(g) - 1)
  /\ \E a \in DOMAIN diff_input :
       Cardinality({o \in DOMAIN loc : Contribution(o, a) # 0}) >= 2

(* ------------- a launcher invocation, host and device ------------------ *)
LaunchGeoms(r) ==
  CASE r = 1 -> Geom1d(Batches, {1}, {1, 2, 3}, {1, 2}, {1, 2})
    [] r = 2 -> Geom2d({1}, {1}, {1, 2}, {1, 2}, {1, 2})
    [] r = 3 -> [batches : {1}, channels : {1},
                 depth : {1, 2}, height : {1, 2}, width : {1},
                 kernel_d : {1, 2}, kernel_h : {1, 2}, kernel_w : {1},
                 stride_d : {1, 2}, stride_h : {1, 2}, stride_w : {1}]

Init ==
  /\ op \in {"fwd", "bwd"}
  /\ rank \in {1, 2, 3}
  /\ g \in LaunchGeoms(rank)
  /\ InitTensors({ONE}, {ONE})
  /\ InitHost

Next ==
  \/ Launch
  \/ HostCheck
  \/ \E t \in DOMAIN thr : UndefinedBody(t)
  \/ \E t \in DOMAIN thr : ForwardBody(t)
  \/ \E t \in DOMAIN thr : BackwardBody(t)
  \/ \E t \in DOMAIN thr : AtomicAddIssue(t)
  \/ \E t \in DOMAIN thr : AtomicAddCommit(t)

Spec == Init /\ [][Next]_vars

\* C10: the launcher checks for a device fault once, after the parallel work
\* of its kernel has completed; on a fault it terminates the process, and it
\* returns 1 only when no fault occurred during its kernel.
C10_CheckAfterKernelCompletes ==
  /\ host \in {"returned", "exited"} =>
       \A t \in DOMAIN thr : thr[t].pc = "done"
  /\ host = "returned" => err = "cudaSuccess"

(* -------- forward kernels, 1D and 2D: the stores of a loop body -------- *)
\* output_data[index] = 0. written over what the cell held
OutputKept(old) == old

\* output_data[index] = 0.
OutputReset(old) == 0

\* a forward loop body up to its second loop nest: the cell is reset, the
\* first loop nest leaves mask_sum
ForwardReset(t) ==
  /\ thr[t].pc = "run"
  /\ op = "fwd"
  /\ ~Undefined(op, rank, thr[t].i, g)
  /\ output_data' = [output_data EXCEPT ![thr[t].i] = OutputReset(@)]
  /\ \E lc \in {Locals(op, rank, thr[t].i, g, bottom_input)} :
       /\ loc' = Record(thr[t].i, lc)
       /\ thr' = [thr EXCEPT ![t] =
                    IF Len(lc.addr2) = 0 THEN NextIndex(thr[t])
                    ELSE [thr[t] EXCEPT !.pc = "load", !.k = 0]]
  /\ UNCHANGED <<op, rank, g, bottom_input, diff_output, diff_input,
                 host, nthreads, gridDim, err>>

\* output_data[index] += weighted_inp: the cell is read
ForwardLoad(t) ==
  /\ thr[t].pc = "load"
  /\ thr' = [thr EXCEPT ![t].pc = "store", ![t].tmp = output_data[thr[t].i]]
  /\ UNCHANGED <<op, rank, g, bottom_input, diff_output, output_data,
                 diff_input, host, nthreads, gridDim, err, loc>>

\* output_data[index] += weighted_inp; output_data[index] = clamp(...): the
\* sum of what was read and weighted_inp is stored, clamped
ForwardStore(t) ==
  /\ thr[t].pc = "store"
  /\ LET lc == loc[thr[t].i]
         a == lc.addr2[thr[t].k + 1]
         weighted_inp == WeightedInp(bottom_input[a], lc.mask_sum)
     IN  /\ output_data' = [output_data EXCEPT
                              ![thr[t].i] = clamp(FAdd(thr[t].tmp, weighted_inp), zero, upper)]
         /\ thr' = [thr EXCEPT ![t] =
                      IF thr[t].k + 1 = Len(lc.addr2) THEN NextIndex(thr[t])
                      ELSE [thr[t] EXCEPT !.pc = "load", !.k = @ + 1, !.tmp = 0]]
  /\ UNCHANGED <<op, rank, g, bottom_input, diff_output, diff_input,
                 host, nthreads, gridDim, err, loc>>

\* what the output buffer holds before the call
PriorValues == {0, 7 * ONE}

\* one channel; 1D slices of at most MaxDim cells over all batches
FwdGeoms(r) ==
  IF r = 1
  THEN {gm \in Geom1d(Batches, {1}, 1..BwdDim, 1..MaxKernel, 1..MaxStride) :
          InputSize(gm) <= MaxDim}
  ELSE {gm \in Geom2d({1}, {1}, {1, 2}, 1..MaxKernel, 1..MaxStride) :
          gm.kernel_h = gm.kernel_w /\ gm.stride_h = gm.stride_w}

InitFwd ==
  /\ op = "fwd"
  /\ rank \in {1, 2}
  /\ g \in FwdGeoms(rank)
  /\ \E first \in {0, 1} :
       bottom_input = [k \in 0..(InputSize(g) - 1) |->
                         IF (k + first) % 2 = 0 THEN -ONE ELSE (k + 1) * ONE]
  /\ \E p \in PriorValues : output_data = [k \in 0..(OutputAlloc(g) - 1) |-> p]
  /\ diff_output = [k \in 0..(OutputAlloc(g) - 1) |-> 0]
  /\ diff_input = [k \in 0..(InputSize(g) - 1) |-> 0]
  /\ InitHost

NextFwd ==
  \/ Launch
  \/ \E t \in DOMAIN thr : UndefinedBody(t)
  \/ \E t \in DOMAIN thr : ForwardReset(t)
  \/ \E t \in DOMAIN thr : ForwardLoad(t)
  \/ \E t \in DOMAIN thr : ForwardStore(t)

SpecFwd == InitFwd /\ [][NextFwd]_vars

\* the thread that is processing index k takes a step
StepsAt(k) == \E t \in DOMAIN thr : thr[t].i = k /\ thr'[t] # thr[t]

\* C11: the forward computation of an index writes only that index's output
\* cell and never the input, so no two computations write one location; when
\* all threads have finished, each output cell holds the value the loop body
\* computes from the input alone, whatever the interleaving and whatever the
\* cell held before.
C11_ForwardWritesOwnSlot ==
  /\ [][/\ bottom_input' = bottom_input
        /\ \A k \in DOMAIN output_data :
             output_data'[k] # output_data[k] => StepsAt(k)]_vars
  /\ [](KernelDone =>
          \A i \in DOMAIN output_data :
            ~Undefined(op, rank, i, g) =>
              output_data[i] = Locals(op, rank, i, g, bottom_input).out)

\* two threads of the 2D kernel are between the read and the store of their
\* cells at once, on an output buffer that held non-zero values, one cell
\* already changed
C11_Witness ==
  /\ rank = 2
  /\ \E t, u \in DOMAIN thr :
       t # u /\ thr[t].pc = "store" /\ thr[u].pc = "store" /\ thr[t].k >= 1
  /\ \E i \in DOMAIN output_data : output_data[i] = 7 * ONE
  /\ \E i \in DOMAIN output_data : output_data[i] \notin {0, 7 * ONE}

(* ------------------ the grid-stride loop, large launches --------------- *)
\* numbers of output cells: none, one, around one block, around the largest
\* grid (65000 blocks of 1024 threads), and the largest counts whose block
\* count GET_BLOCKS computes without overflow
GridBatches ==
  {1, 1023, 1024, 1025, 66560000, 66560001, 133120005,
   2080923648, 2080923649, 2147482624}

\* the threads that are followed, out of the launched ones
GridThreads == {0, 1, 1024, 17563648, 66559999}

\* a 1D launch of batches * dim/stride_d * channels indices, tensors left out
InitGrid ==
  /\ op = "fwd"
  /\ rank = 1
  /\ g \in Geom1d(GridBatches, {1}, {1}, {1}, {1, 2})
  /\ bottom_input = <<>>
  /\ diff_output = <<>>
  /\ output_data = <<>>
  /\ diff_input = <<>>
  /\ InitHost

\* the kernel launch, two of its threads followed
LaunchFollowing(a, b) ==
  /\ host = "call"
  /\ host' = "launched"
  /\ nthreads' = OutputSize(op, rank, g)
  /\ gridDim' = GET_BLOCKS(OutputSize(op, rank, g))
  /\ err' = IF gridDim' = 0 THEN "cudaErrorInvalidConfiguration" ELSE err
  /\ thr' = [t \in {u \in {a, b} : u < Min(nthreads', gridDim' * THREADS_PER_BLOCK)} |->
               [i |-> t, pc |-> "run", k |-> 0, tmp |-> 0]]
  /\ UNCHANGED <<op, rank, g, bottom_input, diff_output, output_data,
                 diff_input, loc>>

\* how often the loop body has run for index
Times(index) == IF index \in DOMAIN loc THEN loc[index].times ELSE 0

\* one pass of the loop body for thread t's index, the body's work left out
LoopBody(t) ==
  /\ thr[t].pc = "run"
  /\ thr[t].i >= 0
  /\ loc' = Record(thr[t].i, [index |-> thr[t].i, thread |-> t,
                              times |-> Times(thr[t].i) + 1])
  /\ thr' = [thr EXCEPT ![t] = NextIndex(thr[t])]
  /\ UNCHANGED <<op, rank, g, bottom_input, diff_output, output_data,
                 diff_input, host, nthreads, gridDim, err>>

\* the loop body at an index below 0: its accesses lie before the buffers,
\* the device may raise a fault; the thread is not followed further
LoopBodyBelowZero(t) ==
  /\ thr[t].pc = "run"
  /\ thr[t].i < 0
  /\ loc' = Record(thr[t].i, [index |-> thr[t].i, thread |-> t,
                              times |-> Times(thr[t].i) + 1])
  /\ thr' = [thr EXCEPT ![t].pc = "fault"]
  /\ err' \in {err, "cudaErrorIllegalAddress"}
  /\ UNCHANGED <<op, rank, g, bottom_input, diff_output, output_data,
                 diff_input, host, nthreads, gridDim>>

NextGrid ==
  \/ \E a, b \in GridThreads : LaunchFollowing(a, b)
  \/ \E t \in DOMAIN thr : LoopBody(t)
  \/ \E t \in DOMAIN thr : LoopBodyBelowZero(t)

SpecGrid == InitGrid /\ [][NextGrid]_vars

\* the indices t, t + stride, t + 2*stride, ... below n
StrideIndices(t, n, stride) ==
  {t + k * stride : k \in {m \in 0..(n \div stride) : m * stride <= n - 1 - t}}

\* C12: for any number n >= 0 of output cells and the grid GET_BLOCKS
\* chooses, every thread's loop ends, every index in [0, n) is processed by
\* one thread exactly once, also when n exceeds the number of threads, and
\* no index outside [0, n) is processed.
C12_GridStrideCoversOnce ==
  /\ \A t \in DOMAIN thr : thr[t].pc \in {"run", "done"}
  /\ \A t \in DOMAIN thr : thr[t].pc = "run" => 0 <= thr[t].i /\ thr[t].i < nthreads
  /\ \A j \in DOMAIN loc : 0 <= j /\ j < nthreads /\ loc[j].times = 1
  /\ KernelDone =>
       \A t \in DOMAIN thr :
         \A j \in StrideIndices(t, nthreads, THREADS_PER_BLOCK * gridDim) :
           j \in DOMAIN loc /\ loc[j].thread = t

(* ------ backward kernels, 1D and 2D, on a gradient not zeroed ---------- *)
\* what input_grad cell a held before the call: one of two patterns, told
\* apart by the first input cell
PriorGrad(a) == IF bottom_input[0] = 0 THEN (a + 2) * ONE ELSE -(7 * ONE)

\* the geometries of the scatter, 2D kernels of extent 1 and 2
AccGeoms(r) == {gm \in BwdGeoms(r) : gm.kernel_h \in {1, 2}}

InitAcc ==
  /\ op = "bwd"
  /\ rank \in {1, 2}
  /\ g \in AccGeoms(rank)
  /\ \E first \in {0, 1} :
       bottom_input = [k \in 0..(InputSize(g) - 1) |-> ((k + first) % 2) * ONE]
  /\ diff_output = [o \in 0..(OutputAlloc(g) - 1) |->
                      IF o % 2 = 0 THEN (o + 1) * ONE ELSE -((o + 1) * ONE)]
  /\ output_data = [k \in 0..(OutputAlloc(g) - 1) |-> 0]
  /\ diff_input = [k \in 0..(InputSize(g) - 1) |-> PriorGrad(k)]
  /\ InitHost

NextAcc ==
  \/ Launch
  \/ \E t \in DOMAIN thr : BackwardBody(t)
  \/ \E t \in DOMAIN thr : AtomicAddIssue(t)
  \/ \E t \in DOMAIN thr : AtomicAddCommit(t)

SpecAcc == InitAcc /\ [][NextAcc]_vars

\* C13: the backward kernel only adds into input_grad: run on prior values
\* P it never changes the input or the output gradient, each step leaves an
\* input_grad cell alone or adds to it the contribution of an output cell
\* whose window covers it, and when all threads have finished every cell
\* holds P plus its accumulated contribution, a cell no window covers
\* holding exactly P.
C13_BackwardOnlyAdds ==
  /\ [][/\ bottom_input' = bottom_input
        /\ diff_output' = diff_output
        /\ \A a \in DOMAIN diff_input :
             \/ diff_input'[a] = diff_input[a]
             \/ \E o \in DOMAIN loc :
                  /\ Covers(o, a)
                  /\ diff_input'[a] = FAdd(diff_input[a], Contribution(o, a))]_vars
  /\ [](KernelDone =>
          \A a \in DOMAIN diff_input :
            /\ diff_input[a] = FAdd(PriorGrad(a), ExpectedGrad(a))
            /\ (\A o \in DOMAIN loc : ~Covers(o, a)) => diff_input[a] = PriorGrad(a))

\* the kernel finished on non-zero prior values: one input cell is covered
\* by no window and holds its prior value, another received a non-zero
\* contribution
C13_Witness ==
  /\ KernelDone
  /\ DOMAIN loc = 0..(OutputAlloc(g) - 1)
  /\ \E a \in DOMAIN diff_input :
       /\ \A o \in DOMAIN loc : ~Covers(o, a)
       /\ diff_input[a] # 0
  /\ \E a \in DOMAIN diff_input :
       /\ \E o \in DOMAIN loc : Contribution(o, a) # 0
       /\ diff_input[a] # PriorGrad(a)

(* --------------------- memory safety of a launch ----------------------- *)
\* C14: for every valid geometry, with the input allocated at
\* batch x channel x extent and the output at batch x channel x
\* floor(extent/stride), every index the kernel processes decodes to a batch
\* below batches and a channel below channels, its output cell lies in the
\* output buffer and every input cell it visits lies in the input buffer.
C14_AccessesInsideBuffers ==
  \A i \in DOMAIN loc :
    /\ 0 <= loc[i].co.n /\ loc[i].co.n < g.batches
    /\ 0 <= loc[i].co.c /\ loc[i].co.c < g.channels
    /\ 0 <= i /\ i < OutputAlloc(g)
    /\ \A k \in 1..Len(loc[i].addr1) :
         0 <= loc[i].addr1[k] /\ loc[i].addr1[k] < InputSize(g)
    /\ \A k \in 1..Len(loc[i].addr2) :
         0 <= loc[i].addr2[k] /\ loc[i].addr2[k] < InputSize(g)
====
